---- MODULE Spec2Model ----
(***************************************************************************)
(* Model of the stats-card server of gh-stats-gif-server (src/main.go):    *)
(* the font cache (getFontFace), the nearest-neighbour resampler           *)
(* (resizeImage), theme selection and the request pipeline                 *)
(* (requestHandler, createStatsImage, addLabel).                           *)
(***************************************************************************)
EXTENDS Integers, Sequences, FiniteSets, TLC

(***************************************************************************)
(* float64 arithmetic.  resizeImage computes its source coordinates in     *)
(* float64, so the model carries IEEE-754 binary64 values exactly.  A      *)
(* non-negative value is [mant, exp]: the natural number whose base-2^18   *)
(* digits are mant (least significant first) times 2^exp.  Every           *)
(* operation rounds its exact result to 53 significant bits, ties to even. *)
(***************************************************************************)
MantBits == 53
LimbBits == 18

RECURSIVE Pow2(_)
Pow2(n) == IF n = 0 THEN 1 ELSE 2 * Pow2(n - 1)

Base == Pow2(LimbBits)

LimbAt(N, i) == IF i \in 1..Len(N) THEN N[i] ELSE 0

\* number of significant bits of one digit / of a natural
BitLen(n) == CHOOSE k \in 0..LimbBits : n < Pow2(k) /\ (k = 0 \/ Pow2(k - 1) <= n)

NatBitLen(N) ==
    IF \A i \in 1..Len(N) : N[i] = 0 THEN 0
    ELSE LET t == CHOOSE i \in 1..Len(N) :
                      N[i] # 0 /\ \A j \in (i + 1)..Len(N) : N[j] = 0
         IN LimbBits * (t - 1) + BitLen(N[t])

\* N \div 2^s
ShiftRight(N, s) ==
    LET j == s \div LimbBits
        k == s % LimbBits
    IN [i \in 1..Len(N) |->
           (LimbAt(N, i + j) \div Pow2(k))
           + (LimbAt(N, i + j + 1) % Pow2(k)) * Pow2(LimbBits - k)]

\* N % 2^s, for s <= 30
LowBits(N, s) == (LimbAt(N, 1) + Base * (LimbAt(N, 2) % Pow2(30 - LimbBits))) % Pow2(s)

RECURSIVE NatInc(_)
NatInc(N) ==
    IF N = << >> THEN <<1>>
    ELSE IF N[1] + 1 < Base THEN <<N[1] + 1>> \o Tail(N)
         ELSE <<0>> \o NatInc(Tail(N))

RECURSIVE NatToInt(_)
NatToInt(N) == IF N = << >> THEN 0 ELSE N[1] + Base * NatToInt(Tail(N))

\* round N * 2^exp (plus a non-zero tail below the last bit when sticky)
\* to 53 significant bits, round-half-to-even
Round53(N, exp, sticky) ==
    LET s == NatBitLen(N) - MantBits
    IN IF s <= 0 THEN [mant |-> N, exp |-> exp]
       ELSE LET kept == ShiftRight(N, s)
                low  == LowBits(N, s)
                half == Pow2(s - 1)
                up   == low > half
                        \/ (low = half /\ (sticky \/ kept[1] % 2 = 1))
            IN [mant |-> IF up THEN NatInc(kept) ELSE kept, exp |-> exp + s]

\* long division of the remainder r by b: n further base-2^18 digits of the
\* quotient, most significant first, and the remainder left after them
RECURSIVE FracLimbs(_, _, _)
FracLimbs(r, b, n) ==
    IF n = 0 THEN << >>
    ELSE <<(r * Base) \div b>> \o FracLimbs((r * Base) % b, b, n - 1)

RECURSIVE FracRem(_, _, _)
FracRem(r, b, n) == IF n = 0 THEN r ELSE FracRem((r * Base) % b, b, n - 1)

FracDigits == 4

Reverse(s) == [i \in 1..Len(s) |-> s[Len(s) + 1 - i]]

\* float64(a) / float64(b) for integers a >= 0, b > 0
FloatDiv(a, b) ==
    Round53(Reverse(FracLimbs(a % b, b, FracDigits)) \o <<a \div b>>,
            0 - LimbBits * FracDigits,
            FracRem(a % b, b, FracDigits) # 0)

\* N * n for a small integer n, digit by digit from the low end
RECURSIVE MulLimbs(_, _, _)
MulLimbs(N, n, carry) ==
    IF N = << >> THEN (IF carry = 0 THEN << >> ELSE <<carry>>)
    ELSE <<(N[1] * n + carry) % Base>>
         \o MulLimbs(Tail(N), n, (N[1] * n + carry) \div Base)

\* float64(n) * f for an integer n >= 0
FloatMulInt(n, f) == Round53(MulLimbs(f.mant, n, 0), f.exp, FALSE)

\* int(f): conversion of a non-negative float64 truncates toward zero
FloatToInt(f) ==
    IF f.exp >= 0 THEN NatToInt(f.mant) * Pow2(f.exp)
    ELSE NatToInt(ShiftRight(f.mant, 0 - f.exp))

(***************************************************************************)
(* Bitmaps.  A source bitmap is what image.Image offers: its bounds        *)
(* (minX, minY, w, h) and, per pixel, the four 16-bit channels that        *)
(* At(x, y).RGBA() returns.  An image.RGBA keeps four 8-bit channels.      *)
(***************************************************************************)
Coords(w, h) == (0..(w - 1)) \X (0..(h - 1))

\* no bitmap
NoBitmap == [w |-> 0, h |-> 0, pix |-> << >>]

\* the color.RGBA stored by dst.SetRGBA: each channel is uint8(c >> 8)
ToRGBA8(c) == <<c[1] \div 256, c[2] \div 256, c[3] \div 256, c[4] \div 256>>

\* one source coordinate: int(float64(x) * ratio), kept below the source size
SrcCoord(x, ratio, srcSize) ==
    LET c == FloatToInt(FloatMulInt(x, ratio))
    IN IF c >= srcSize THEN srcSize - 1 ELSE c

\* the source coordinates of the destination coordinates lo..hi, in order
RECURSIVE SrcCoords(_, _, _, _)
SrcCoords(lo, hi, ratio, srcSize) ==
    IF lo > hi THEN << >>
    ELSE IF lo = hi THEN <<SrcCoord(lo, ratio, srcSize)>>
         ELSE LET mid == (lo + hi) \div 2
              IN SrcCoords(lo, mid, ratio, srcSize) \o SrcCoords(mid + 1, hi, ratio, srcSize)

\* lines 265-284: every destination pixel takes the source pixel at the
\* coordinates computed for its column and row (srcX[x + 1], srcY[y + 1])
Sample(src, width, height, srcX, srcY) ==
    [w |-> width, h |-> height,
     pix |-> [p \in Coords(width, height) |->
                 ToRGBA8(src.pix[<<src.minX + srcX[p[1] + 1],
                                   src.minY + srcY[p[2] + 1]>>])]]

resizeImage(src, width, height) ==
    Sample(src, width, height,
           SrcCoords(0, width - 1, FloatDiv(src.w, width), src.w),
           SrcCoords(0, height - 1, FloatDiv(src.h, height), src.h))

\* the pixel resizeImage(src, width, height) holds at (x, y)
resizePixel(src, width, height, x, y) ==
    ToRGBA8(src.pix[<<src.minX + SrcCoord(x, FloatDiv(src.w, width), src.w),
                      src.minY + SrcCoord(y, FloatDiv(src.h, height), src.h)>>])

(***************************************************************************)
(* Themes.  Colours are the 8-bit RGBA values the canvas ends up holding   *)
(* (color.White is opaque 255, color.Black opaque 0).                      *)
(***************************************************************************)
themes ==
    [light |-> [BGColor    |-> <<255, 255, 255, 255>>,
                TextColor  |-> <<0, 0, 0, 255>>,
                TitleColor |-> <<40, 120, 200, 255>>,
                StatsColor |-> <<50, 50, 50, 255>>],
     dark  |-> [BGColor    |-> <<30, 30, 30, 255>>,
                TextColor  |-> <<230, 230, 230, 255>>,
                TitleColor |-> <<100, 180, 255, 255>>,
                StatsColor |-> <<200, 200, 200, 255>>],
     a     |-> [BGColor    |-> <<255, 240, 240, 255>>,
                TextColor  |-> <<80, 20, 20, 255>>,
                TitleColor |-> <<200, 50, 50, 255>>,
                StatsColor |-> <<120, 40, 40, 255>>]]

\* a lookup that folds case before matching the keys
SelectThemeFoldCase(themeName) ==
    IF themeName \in DOMAIN themes THEN themes[themeName]
    ELSE IF themeName = "Dark" THEN themes["dark"] ELSE themes["light"]

\* theme, ok := themes[themeName]; if !ok { theme = themes["light"] }
SelectTheme(themeName) ==
    IF themeName \in DOMAIN themes THEN themes[themeName] ELSE themes["light"]

(***************************************************************************)
(* Bounds of the model.                                                    *)
(***************************************************************************)
NumProcs == 2       \* goroutines serving requests at the same time
MaxRequests == 2    \* requests accepted in one behaviour
MaxCalls == 3       \* getFontFace calls of the sequential caller

Procs == 1..NumProcs

(***************************************************************************)
(* Fonts.  fontPaths is the candidate list of getFontFace; the state of a  *)
(* candidate file decides how far the loop body gets with it.              *)
(***************************************************************************)
fontPaths ==
    << "/usr/share/fonts/truetype/inconsolata/Inconsolata.ttf",
       "/usr/share/fonts/truetype/inconsolata/Inconsolata-Regular.ttf",
       "/usr/share/fonts/opentype/inconsolata/Inconsolata-Regular.otf",
       "/usr/share/fonts/truetype/dejavu/DejaVuSansMono.ttf",
       "/usr/share/fonts/truetype/liberation/LiberationMono-Regular.ttf",
       "/System/Library/Fonts/Menlo.ttc",
       "C:\\Windows\\Fonts\\consola.ttf" >>

NumPaths == Len(fontPaths)

\* "unreadable": ioutil.ReadFile fails; "unparsable": opentype.Parse fails;
\* "font": both succeed
FileStates == {"unreadable", "unparsable", "font"}

\* opentype.NewFace(parsedFont, {Size, DPI: 72}) returns no error for any
\* parsed font and size: the third `continue` of the loop is never taken
NewFaceFails(path, sz) == FALSE

\* the point sizes createStatsImage asks for
TitleSize == 72
StatSize == 48
FontSizes == {StatSize, TitleSize}

\* font.Face(nil)
NoFace == [id |-> 0, path |-> 0, size |-> 0]

\* the machines the server is deployed on: no candidate at all, a Linux box
\* with DejaVu and Liberation, one whose first Inconsolata file is corrupt
FontSetups ==
    { [i \in 1..NumPaths |-> "unreadable"],
      [i \in 1..NumPaths |-> IF i \in {4, 5} THEN "font" ELSE "unreadable"],
      [i \in 1..NumPaths |-> IF i = 1 THEN "unparsable"
                             ELSE IF i = 2 THEN "font" ELSE "unreadable"] }

(***************************************************************************)
(* Requests and their data.                                                *)
(***************************************************************************)
\* values of the "id" and "theme" query arguments (absent = empty)
Ids == {"", "octocat"}
ThemeNames == {"", "light", "dark", "a", "Dark", "nonexistent"}

Blue16 == <<0, 0, 65535, 65535>>

\* decoded avatars: a 1x1 solid blue one and a 2x2 one of four colours
SolidAvatar ==
    [minX |-> 0, minY |-> 0, w |-> 1, h |-> 1,
     pix |-> [p \in Coords(1, 1) |-> Blue16]]

QuadAvatar ==
    [minX |-> 0, minY |-> 0, w |-> 2, h |-> 2,
     pix |-> [p \in Coords(2, 2) |->
                 <<65535 * p[1], 65535 * p[2], 4660, 65535>>]]

Avatars == {SolidAvatar, QuadAvatar}

\* what GET /users/<id> can answer: a user with and one without a name
Users ==
    { [Name |-> "The Octocat", Followers |-> 10, Following |-> 5, PublicRepos |-> 3],
      [Name |-> "", Followers |-> 0, Following |-> 0, PublicRepos |-> 0] }

StarCounts == {42}

\* the requests and upstream answers a behaviour draws from: all of them
\* for one goroutine, a few where goroutines interleave
AllInputs ==
    [ids |-> Ids, themes |-> ThemeNames, users |-> Users, avatars |-> Avatars,
     starsOk |-> BOOLEAN]

FewInputs ==
    [ids |-> Ids, themes |-> {"dark"},
     users |-> {u \in Users : u.Name # ""}, avatars |-> {SolidAvatar}, starsOk |-> {TRUE}]

\* the requests whose cards are compared pixel by pixel
CardInputs ==
    [ids |-> Ids, themes |-> {"dark", "a"},
     users |-> {u \in Users : u.Name # ""}, avatars |-> Avatars, starsOk |-> {TRUE}]

NoStats == [Name |-> "", Avatar |-> SolidAvatar, Followers |-> 0 - 1,
            Following |-> 0 - 1, PublicRepos |-> 0 - 1, TotalStars |-> 0 - 1]

\* fetchStatsData once getUserData and getAvatar have succeeded: starsOk
\* tells whether getTotalStars did too
AssembleStats(username, user, avatar, starsOk, stars) ==
    [Name        |-> IF user.Name = "" THEN username ELSE user.Name,
     Avatar      |-> avatar,
     Followers   |-> user.Followers,
     Following   |-> user.Following,
     PublicRepos |-> user.PublicRepos,
     TotalStars  |-> IF starsOk THEN stars ELSE 0]

(***************************************************************************)
(* The canvas of one createStatsImage call, kept as what was drawn on it:  *)
(* the background fill, the avatar drawn with draw.Src into its rectangle, *)
(* and the labels DrawString has drawn, in order.                          *)
(***************************************************************************)
CanvasWidth == 1200
CanvasHeight == 800
AvatarSize == 160
AvatarOrigin == 53

NoCanvas == [w |-> 0, h |-> 0, bg |-> <<0, 0, 0, 0>>, avatar |-> SolidAvatar, labels |-> << >>]

\* lines 341-353: new canvas, background fill, resized avatar
NewCanvas(st, th) ==
    [w |-> CanvasWidth, h |-> CanvasHeight, bg |-> th.BGColor,
     avatar |-> st.Avatar, labels |-> << >>]

InAvatarRect(x, y) ==
    /\ AvatarOrigin <= x /\ x < AvatarOrigin + AvatarSize
    /\ AvatarOrigin <= y /\ y < AvatarOrigin + AvatarSize

\* the pixel under the labels: the resized avatar inside its rectangle, the
\* background everywhere else
BasePixel(c, x, y) ==
    IF InAvatarRect(x, y)
    THEN resizePixel(c.avatar, AvatarSize, AvatarSize, x - AvatarOrigin, y - AvatarOrigin)
    ELSE c.bg

\* image.Rect(x0, y0, x1, y1) and (x, y).In(r)
Rect(x0, y0, x1, y1) == [minX |-> x0, minY |-> y0, maxX |-> x1, maxY |-> y1]
InRect(r, x, y) == r.minX <= x /\ x < r.maxX /\ r.minY <= y /\ y < r.maxY

\* image.NewRGBA: every pixel starts as transparent black
ZeroPixel == <<0, 0, 0, 0>>

\* the avatar drawn first and the background fill after it
DrawsAvatarFirst(c) ==
    << [r |-> Rect(AvatarOrigin, AvatarOrigin,
                   AvatarOrigin + AvatarSize, AvatarOrigin + AvatarSize),
        uniform |-> FALSE, clr |-> ZeroPixel,
        src |-> resizeImage(c.avatar, AvatarSize, AvatarSize), sp |-> <<0, 0>>],
       [r |-> Rect(0, 0, c.w, c.h), uniform |-> TRUE, clr |-> c.bg,
        src |-> NoBitmap, sp |-> <<0, 0>>] >>

\* the draw.Draw(img, r, src, sp, draw.Src) calls that made canvas c, in the
\* order of lines 344 and 353: the background fill over img.Bounds(), then
\* the resized avatar into avatarDestRect
Draws(c) ==
    << [r |-> Rect(0, 0, c.w, c.h), uniform |-> TRUE, clr |-> c.bg,
        src |-> NoBitmap, sp |-> <<0, 0>>],
       [r |-> Rect(AvatarOrigin, AvatarOrigin,
                   AvatarOrigin + AvatarSize, AvatarOrigin + AvatarSize),
        uniform |-> FALSE, clr |-> ZeroPixel,
        src |-> resizeImage(c.avatar, AvatarSize, AvatarSize), sp |-> <<0, 0>>] >>

\* draw.Draw with draw.Src writes the pixels of r that have a source pixel:
\* destination (x, y) takes the source pixel at sp + (x, y) - r.Min
DrawCovers(d, x, y) ==
    /\ InRect(d.r, x, y)
    /\ d.uniform \/ <<x - d.r.minX + d.sp[1], y - d.r.minY + d.sp[2]>>
                        \in Coords(d.src.w, d.src.h)

DrawnPixel(d, x, y) ==
    IF d.uniform THEN d.clr
    ELSE d.src.pix[<<x - d.r.minX + d.sp[1], y - d.r.minY + d.sp[2]>>]

\* the pixel (x, y) of a new canvas after the first n draws of ds: the last
\* of them that covers it decides
RECURSIVE PixelAfter(_, _, _, _)
PixelAfter(ds, n, x, y) ==
    IF n = 0 THEN ZeroPixel
    ELSE IF DrawCovers(ds[n], x, y) THEN DrawnPixel(ds[n], x, y)
         ELSE PixelAfter(ds, n - 1, x, y)

\* DrawString sets the glyphs on the baseline that starts at the dot (x, y)
\* and draws left to right: at the sizes used, the glyphs of a label stay
\* within half an em left of the dot, one and a half em above the baseline
\* and one em below it
LabelCovers(l, x, y) ==
    /\ x >= l.x - l.size \div 2
    /\ y >= l.y - (3 * l.size) \div 2
    /\ y <= l.y + l.size

\* the five addLabel calls of createStatsImage, in order
Labels(st, th) ==
    << [x |-> AvatarOrigin + AvatarSize + 53, y |-> 147,
        text |-> <<st.Name>>, clr |-> th.TitleColor, size |-> TitleSize],
       [x |-> 53, y |-> 293,
        text |-> <<"Followers: ", st.Followers>>, clr |-> th.StatsColor, size |-> StatSize],
       [x |-> 640, y |-> 293,
        text |-> <<"Following: ", st.Following>>, clr |-> th.StatsColor, size |-> StatSize],
       [x |-> 53, y |-> 293 + 67,
        text |-> <<"Public Repos: ", st.PublicRepos>>, clr |-> th.StatsColor, size |-> StatSize],
       [x |-> 640, y |-> 293 + 67,
        text |-> <<"Total Stars: ", st.TotalStars>>, clr |-> th.StatsColor, size |-> StatSize] >>

NumLabels == 5

\* what d.DrawString(label) leaves on the canvas: the label, the font file
\* and size of the face that rasterized it, and whether the glyphs came out
\* as the font defines them
Drawn(l, f, glyphs) ==
    [x |-> l.x, y |-> l.y, text |-> l.text, clr |-> l.clr,
     path |-> f.path, size |-> f.size, glyphs |-> glyphs]

\* png.Encode is lossless: the bytes determine the canvas and conversely
PngBytes(c) == <<"PNG", c>>

NoBuf == << >>
NoResp == [status |-> 0, ctype |-> "", cache |-> "", body |-> << >>]

\* ctx.Error(msg, status)
ErrorResp(status) ==
    [status |-> status, ctype |-> "text/plain; charset=utf-8", cache |-> "", body |-> <<"error">>]

\* lines 118-122
ImageResp(buf) ==
    [status |-> 200, ctype |-> "image/png",
     cache |-> "public, max-age=3600, s-maxage=3600", body |-> buf]

(***************************************************************************)
(* State.                                                                  *)
(***************************************************************************)
VARIABLES
    fontFiles,  \* candidate index -> state of that file on this machine
    fontCache,  \* the package-level map: size -> face, NoFace where absent
    faces,      \* every face opentype.NewFace has returned so far
    racy,       \* goroutines whose fontCache access in flight overlapped a write
    faceRacy,   \* goroutines whose DrawString in flight shared its face
    fatal,      \* the runtime has thrown ("concurrent map writes")
    pc,         \* per goroutine: where it stands
    caller,     \* per goroutine: who called getFontFace
    req,        \* per goroutine: the query arguments of its request
    theme,      \* per goroutine: the palette selected
    stats,      \* per goroutine: the StatsData fetched
    img,        \* per goroutine: the canvas of its createStatsImage call
    k,          \* per goroutine: index of the addLabel call in progress
    size,       \* per goroutine: argument of its getFontFace call
    idx,        \* per goroutine: position in fontPaths
    tried,      \* per goroutine: candidates ReadFile was called on, this call
    hit,        \* per goroutine: the call answered from the cache
    face,       \* per goroutine: the face getFontFace builds / returns
    encFailed,  \* per goroutine: png.Encode failed for this request
    imgBuf,     \* per goroutine: buffer returned by createStatsImage
    err,        \* per goroutine: error returned by createStatsImage
    resp,       \* per goroutine: what has been written to the client
    accepted,   \* requests accepted so far
    calls,      \* completed getFontFace calls of the sequential caller
    rsIn,       \* resizeImage under test: its arguments
    rsOut       \* resizeImage under test: its result

fontVars == <<fontCache, faces, racy, faceRacy, fatal>>
gffVars == <<size, idx, tried, hit, face>>
reqVars == <<req, theme, stats, img, k, encFailed, imgBuf, err, resp, accepted>>
rsVars == <<rsIn, rsOut>>
vars == <<fontFiles, fontVars, pc, caller, gffVars, reqVars, calls, rsVars>>

NoReq == [id |-> "", theme |-> ""]
NoResize == [src |-> SolidAvatar, width |-> 0, height |-> 0]

InitCommon ==
    /\ fontCache = [s \in FontSizes |-> NoFace]
    /\ faces = {}
    /\ racy = {}
    /\ faceRacy = {}
    /\ fatal = FALSE
    /\ pc = [p \in Procs |-> "idle"]
    /\ caller = [p \in Procs |-> "none"]
    /\ req = [p \in Procs |-> NoReq]
    /\ theme = [p \in Procs |-> themes["light"]]
    /\ stats = [p \in Procs |-> NoStats]
    /\ img = [p \in Procs |-> NoCanvas]
    /\ k = [p \in Procs |-> 0]
    /\ size = [p \in Procs |-> 0]
    /\ idx = [p \in Procs |-> 0]
    /\ tried = [p \in Procs |-> << >>]
    /\ hit = [p \in Procs |-> FALSE]
    /\ face = [p \in Procs |-> NoFace]
    /\ encFailed = [p \in Procs |-> FALSE]
    /\ imgBuf = [p \in Procs |-> NoBuf]
    /\ err = [p \in Procs |-> FALSE]
    /\ resp = [p \in Procs |-> NoResp]
    /\ accepted = 0
    /\ calls = << >>

\* no resizeImage under test
InitNoResize ==
    /\ rsIn = NoResize
    /\ rsOut = NoBitmap

Init ==
    /\ fontFiles \in FontSetups
    /\ InitCommon
    /\ InitNoResize

(***************************************************************************)
(* getFontFace.  A Go map is not safe for concurrent use: a read or write  *)
(* of fontCache takes time, and one that overlaps a write by another       *)
(* goroutine is a data race.  The model gives each access a begin and an   *)
(* end, and a racing access any outcome the runtime can produce.           *)
(***************************************************************************)
Reading(p) == pc[p] = "lookup"
Writing(p) == pc[p] = "storing"

\* line 291, begin: the lookup fontCache[size] starts
BeginLookup(p, sz, who) ==
    /\ pc' = [pc EXCEPT ![p] = "lookup"]
    /\ caller' = [caller EXCEPT ![p] = who]
    /\ size' = [size EXCEPT ![p] = sz]
    /\ tried' = [tried EXCEPT ![p] = << >>]
    /\ hit' = [hit EXCEPT ![p] = FALSE]
    /\ face' = [face EXCEPT ![p] = NoFace]
    /\ idx' = [idx EXCEPT ![p] = 0]
    /\ LET writers == {q \in Procs \ {p} : Writing(q)}
       IN racy' = IF writers = {} THEN racy ELSE racy \cup writers \cup {p}
    /\ UNCHANGED <<fontCache, faces, faceRacy, fatal>>

\* what a lookup that raced with a write may see: the entry, no entry, or
\* the face a racing writer is storing under that size
RacyReads(p) ==
    {NoFace, fontCache[size[p]]}
        \cup {face[q] : q \in {r \in Procs \ {p} : Writing(r) /\ size[r] = size[p]}}

\* a loop that steps over every other candidate
SkipCandidate(i) == i + 2

\* the first candidate of the loop, and the one after candidate i
FirstCandidate == 1
NextCandidate(i) == i + 1

\* lines 291-293, end: the lookup answers; a hit returns the cached face
LookupEnd(p) ==
    /\ ~fatal
    /\ pc[p] = "lookup"
    /\ \E v \in (IF p \in racy THEN RacyReads(p) ELSE {fontCache[size[p]]}) :
          IF v # NoFace
          THEN /\ face' = [face EXCEPT ![p] = v]
               /\ hit' = [hit EXCEPT ![p] = TRUE]
               /\ pc' = [pc EXCEPT ![p] = "gotface"]
               /\ UNCHANGED idx
          ELSE /\ idx' = [idx EXCEPT ![p] = FirstCandidate]
               /\ pc' = [pc EXCEPT ![p] = "scan"]
               /\ UNCHANGED <<face, hit>>
    /\ racy' = racy \ {p}
    /\ UNCHANGED <<fontFiles, fontCache, faces, faceRacy, fatal, caller, size, tried,
                   reqVars, calls, rsVars>>

\* a data race on the map that the runtime detects: it throws and the
\* process dies
MapThrow(p) ==
    /\ ~fatal
    /\ pc[p] \in {"lookup", "storing"}
    /\ p \in racy
    /\ fatal' = TRUE
    /\ UNCHANGED <<fontFiles, fontCache, faces, racy, faceRacy, pc, caller, gffVars,
                   reqVars, calls, rsVars>>

\* the loop of lines 306-327 from candidate i on: the candidates it calls
\* ReadFile on, in order, and the one it builds the face from (0: none); a
\* candidate that cannot be read, parsed or given a face is passed over
RECURSIVE Walk(_, _, _)
Walk(files, sz, i) ==
    IF i > NumPaths THEN [tried |-> << >>, path |-> 0]
    ELSE IF files[i] = "font" /\ ~NewFaceFails(i, sz)
         THEN [tried |-> <<i>>, path |-> i]
         ELSE LET rest == Walk(files, sz, NextCandidate(i))
              IN [tried |-> <<i>> \o rest.tried, path |-> rest.path]

\* lines 295-331: on a miss the candidates are read in turn; with a face
\* built the store of line 325 begins, with none the function returns nil.
\* The files are only read, so the whole loop is one step.
ScanFonts(p) ==
    /\ ~fatal
    /\ pc[p] = "scan"
    /\ LET r == Walk(fontFiles, size[p], idx[p])
       IN /\ tried' = [tried EXCEPT ![p] = r.tried]
          /\ IF r.path # 0
             THEN LET f == [id |-> Cardinality(faces) + 1, path |-> r.path, size |-> size[p]]
                      others == {q \in Procs \ {p} : Reading(q) \/ Writing(q)}
                  IN /\ face' = [face EXCEPT ![p] = f]
                     /\ faces' = faces \cup {f}
                     /\ pc' = [pc EXCEPT ![p] = "storing"]
                     /\ racy' = IF others = {} THEN racy ELSE racy \cup others \cup {p}
             ELSE /\ pc' = [pc EXCEPT ![p] = "gotface"]
                  /\ UNCHANGED <<face, faces, racy>>
    /\ UNCHANGED <<fontFiles, fontCache, faceRacy, fatal, caller, size, idx, hit,
                   reqVars, calls, rsVars>>

\* a store that never reaches the map
StoreNothing(cache, sz, f) == cache

\* the map after fontCache[sz] = f
Store(cache, sz, f) == [cache EXCEPT ![sz] = f]

\* lines 325-326, end: the store lands and the face is returned
StoreEnd(p) ==
    /\ ~fatal
    /\ pc[p] = "storing"
    /\ fontCache' = Store(fontCache, size[p], face[p])
    /\ racy' = racy \ {p}
    /\ pc' = [pc EXCEPT ![p] = "gotface"]
    /\ UNCHANGED <<fontFiles, faces, faceRacy, fatal, caller, gffVars,
                   reqVars, calls, rsVars>>

(***************************************************************************)
(* requestHandler, fetchStatsData, createStatsImage, addLabel.             *)
(***************************************************************************)
\* ctx.Error / ctx.Write: the response is written and the handler is at
\* its return
Finish(p, r) ==
    /\ resp' = [resp EXCEPT ![p] = r]
    /\ pc' = [pc EXCEPT ![p] = "done"]

\* lines 86-101: a goroutine takes a request, checks "id", selects the theme
Accept(p, dom) ==
    /\ ~fatal
    /\ pc[p] = "idle"
    /\ accepted < MaxRequests
    /\ accepted' = accepted + 1
    /\ \E id \in dom.ids, tn \in dom.themes :
          /\ req' = [req EXCEPT ![p] = [id |-> id, theme |-> tn]]
          /\ IF id = ""
             THEN /\ Finish(p, ErrorResp(400))
                  /\ UNCHANGED theme
             ELSE /\ theme' = [theme EXCEPT ![p] = SelectTheme(tn)]
                  /\ pc' = [pc EXCEPT ![p] = "fetch"]
                  /\ UNCHANGED resp
    /\ UNCHANGED <<fontFiles, fontVars, caller, gffVars, stats, img, k, encFailed,
                   imgBuf, err, calls, rsVars>>

\* a handler that goes on to render after a failed fetch
FetchIgnoringFailure(p, dom) ==
    /\ ~fatal
    /\ pc[p] = "fetch"
    /\ \/ /\ \E failed \in {"getUserData", "getAvatar"} :
                pc' = [pc EXCEPT ![p] = "render"]
          /\ UNCHANGED stats
       \/ \E user \in dom.users, avatar \in dom.avatars, starsOk \in dom.starsOk,
             stars \in StarCounts :
             /\ stats' = [stats EXCEPT ![p] =
                             AssembleStats(req[p].id, user, avatar, starsOk, stars)]
             /\ pc' = [pc EXCEPT ![p] = "render"]
    /\ UNCHANGED <<fontFiles, fontVars, caller, gffVars, req, theme, img, k, encFailed,
                   imgBuf, err, resp, accepted, calls, rsVars>>

\* lines 104-108 with fetchStatsData (126-164): the three upstream calls
\* answer; a failed user or avatar call fails the fetch, a failed stars
\* call counts as zero stars
Fetch(p, dom) ==
    /\ ~fatal
    /\ pc[p] = "fetch"
    /\ \/ /\ \E failed \in {"getUserData", "getAvatar"} : Finish(p, ErrorResp(404))
          /\ UNCHANGED stats
       \/ \E user \in dom.users, avatar \in dom.avatars, starsOk \in dom.starsOk,
             stars \in StarCounts :
             /\ stats' = [stats EXCEPT ![p] =
                             AssembleStats(req[p].id, user, avatar, starsOk, stars)]
             /\ pc' = [pc EXCEPT ![p] = "render"]
             /\ UNCHANGED resp
    /\ UNCHANGED <<fontFiles, fontVars, caller, gffVars, req, theme, img, k, encFailed,
                   imgBuf, err, accepted, calls, rsVars>>

\* lines 335-353: createStatsImage allocates its canvas, fills the
\* background and draws the resized avatar
RenderBegin(p) ==
    /\ ~fatal
    /\ pc[p] = "render"
    /\ img' = [img EXCEPT ![p] = NewCanvas(stats[p], theme[p])]
    /\ k' = [k EXCEPT ![p] = 1]
    /\ pc' = [pc EXCEPT ![p] = "label"]
    /\ UNCHANGED <<fontFiles, fontVars, caller, gffVars, req, theme, stats, encFailed,
                   imgBuf, err, resp, accepted, calls, rsVars>>

\* lines 385-386: the k-th addLabel call enters getFontFace(fontSize)
AddLabelCall(p) ==
    /\ ~fatal
    /\ pc[p] = "label"
    /\ BeginLookup(p, Labels(stats[p], theme[p])[k[p]].size, "addLabel")
    /\ UNCHANGED <<fontFiles, reqVars, calls, rsVars>>

\* after the k-th addLabel: the next one, or the encoder
AfterLabel(p) == IF k[p] = NumLabels THEN "encode" ELSE "label"

\* an addLabel that gives the render up when it has no face
AbortOnMissingFace(p) ==
    /\ ~fatal
    /\ pc[p] = "gotface"
    /\ caller[p] = "addLabel"
    /\ face[p] = NoFace
    /\ err' = [err EXCEPT ![p] = TRUE]
    /\ pc' = [pc EXCEPT ![p] = "respond"]
    /\ UNCHANGED <<fontFiles, fontVars, caller, gffVars, req, theme, stats, img, k,
                   encFailed, imgBuf, resp, accepted, calls, rsVars>>

\* lines 387-390: no face, the label is skipped
SkipLabel(p) ==
    /\ ~fatal
    /\ pc[p] = "gotface"
    /\ caller[p] = "addLabel"
    /\ face[p] = NoFace
    /\ k' = [k EXCEPT ![p] = @ + 1]
    /\ pc' = [pc EXCEPT ![p] = AfterLabel(p)]
    /\ UNCHANGED <<fontFiles, fontVars, caller, gffVars, req, theme, stats, img, encFailed,
                   imgBuf, err, resp, accepted, calls, rsVars>>

\* a font.Face is not safe for concurrent use (its Glyph method reuses the
\* face's rasterizer and mask buffers): DrawString takes time, and two
\* that overlap on one face race on those buffers
Drawing(p) == pc[p] = "draw"

\* lines 392-399, begin: DrawString starts using the face
DrawBegin(p) ==
    /\ ~fatal
    /\ pc[p] = "gotface"
    /\ caller[p] = "addLabel"
    /\ face[p] # NoFace
    /\ pc' = [pc EXCEPT ![p] = "draw"]
    /\ LET sharers == {q \in Procs \ {p} : Drawing(q) /\ face[q].id = face[p].id}
       IN faceRacy' = IF sharers = {} THEN faceRacy ELSE faceRacy \cup sharers \cup {p}
    /\ UNCHANGED <<fontFiles, fontCache, faces, racy, fatal, caller, gffVars,
                   reqVars, calls, rsVars>>

\* lines 392-399, end: the glyphs are on the canvas
DrawEnd(p) ==
    /\ ~fatal
    /\ pc[p] = "draw"
    /\ \E glyphs \in (IF p \in faceRacy THEN {"clean", "garbled"} ELSE {"clean"}) :
          img' = [img EXCEPT ![p].labels =
                     Append(@, Drawn(Labels(stats[p], theme[p])[k[p]], face[p], glyphs))]
    /\ faceRacy' = faceRacy \ {p}
    /\ k' = [k EXCEPT ![p] = @ + 1]
    /\ pc' = [pc EXCEPT ![p] = AfterLabel(p)]
    /\ UNCHANGED <<fontFiles, fontCache, faces, racy, fatal, caller, gffVars, req, theme,
                   stats, encFailed, imgBuf, err, resp, accepted, calls, rsVars>>

\* what createStatsImage returns once png.Encode has answered
EncodeResult(c, ok) ==
    IF ok THEN [buf |-> PngBytes(c), err |-> FALSE]
    ELSE [buf |-> NoBuf, err |-> TRUE]

\* lines 374-381: png.Encode into a fresh buffer; createStatsImage returns
Encode(p) ==
    /\ ~fatal
    /\ pc[p] = "encode"
    /\ \E ok \in BOOLEAN :
          LET r == EncodeResult(img[p], ok)
          IN /\ encFailed' = [encFailed EXCEPT ![p] = ~ok]
             /\ imgBuf' = [imgBuf EXCEPT ![p] = r.buf]
             /\ err' = [err EXCEPT ![p] = r.err]
    /\ pc' = [pc EXCEPT ![p] = "respond"]
    /\ UNCHANGED <<fontFiles, fontVars, caller, gffVars, req, theme, stats, img, k, resp,
                   accepted, calls, rsVars>>

\* a handler that serves the buffer whatever createStatsImage reported
RenderRespIgnoringErr(buf, e) == ImageResp(buf)

\* what requestHandler writes after createStatsImage (lines 112-122)
RenderResp(buf, e) == IF e THEN ErrorResp(500) ELSE ImageResp(buf)

Respond(p) ==
    /\ ~fatal
    /\ pc[p] = "respond"
    /\ Finish(p, RenderResp(imgBuf[p], err[p]))
    /\ UNCHANGED <<fontFiles, fontVars, caller, gffVars, req, theme, stats, img, k,
                   encFailed, imgBuf, err, accepted, calls, rsVars>>

\* requestHandler returns: the request context and the locals are gone
Release(p) ==
    /\ ~fatal
    /\ pc[p] = "done"
    /\ pc' = [pc EXCEPT ![p] = "idle"]
    /\ caller' = [caller EXCEPT ![p] = "none"]
    /\ req' = [req EXCEPT ![p] = NoReq]
    /\ theme' = [theme EXCEPT ![p] = themes["light"]]
    /\ stats' = [stats EXCEPT ![p] = NoStats]
    /\ img' = [img EXCEPT ![p] = NoCanvas]
    /\ k' = [k EXCEPT ![p] = 0]
    /\ size' = [size EXCEPT ![p] = 0]
    /\ idx' = [idx EXCEPT ![p] = 0]
    /\ tried' = [tried EXCEPT ![p] = << >>]
    /\ hit' = [hit EXCEPT ![p] = FALSE]
    /\ face' = [face EXCEPT ![p] = NoFace]
    /\ encFailed' = [encFailed EXCEPT ![p] = FALSE]
    /\ imgBuf' = [imgBuf EXCEPT ![p] = NoBuf]
    /\ err' = [err EXCEPT ![p] = FALSE]
    /\ resp' = [resp EXCEPT ![p] = NoResp]
    /\ UNCHANGED <<fontFiles, fontVars, accepted, calls, rsVars>>

Next ==
    \E p \in Procs :
        \/ Accept(p, FewInputs)
        \/ Fetch(p, FewInputs)
        \/ RenderBegin(p)
        \/ AddLabelCall(p)
        \/ LookupEnd(p)
        \/ MapThrow(p)
        \/ ScanFonts(p)
        \/ StoreEnd(p)
        \/ SkipLabel(p)
        \/ DrawBegin(p)
        \/ DrawEnd(p)
        \/ Encode(p)
        \/ Respond(p)
        \/ Release(p)

Spec == Init /\ [][Next]_vars

(***************************************************************************)
(* One goroutine: the same handler with requests served one after another  *)
(* and every request and upstream answer possible.                         *)
(***************************************************************************)
NextOne ==
    \/ Accept(1, AllInputs)
    \/ Fetch(1, AllInputs)
    \/ RenderBegin(1)
    \/ AddLabelCall(1)
    \/ LookupEnd(1)
    \/ ScanFonts(1)
    \/ StoreEnd(1)
    \/ SkipLabel(1)
    \/ DrawBegin(1)
    \/ DrawEnd(1)
    \/ Encode(1)
    \/ Respond(1)
    \/ Release(1)

SpecOne == Init /\ [][NextOne]_vars

(***************************************************************************)
(* One goroutine rendering cards: the same handler again, with the         *)
(* requests that differ in what the canvas holds.                          *)
(***************************************************************************)
NextCard ==
    \/ Accept(1, CardInputs)
    \/ Fetch(1, CardInputs)
    \/ RenderBegin(1)
    \/ AddLabelCall(1)
    \/ LookupEnd(1)
    \/ ScanFonts(1)
    \/ StoreEnd(1)
    \/ SkipLabel(1)
    \/ DrawBegin(1)
    \/ DrawEnd(1)
    \/ Encode(1)
    \/ Respond(1)
    \/ Release(1)

SpecCard == Init /\ [][NextCard]_vars

(***************************************************************************)
(* getFontFace called directly, one call after the other, on a machine     *)
(* with any combination of candidate files; each completed call is logged  *)
(* with what it returned, the files it read and the cache entry it left.   *)
(***************************************************************************)
InitSeq ==
    /\ fontFiles \in [1..NumPaths -> FileStates]
    /\ InitCommon
    /\ InitNoResize

DirectCall(p, sz) ==
    /\ pc[p] = "idle"
    /\ Len(calls) < MaxCalls
    /\ BeginLookup(p, sz, "direct")
    /\ UNCHANGED <<fontFiles, reqVars, calls, rsVars>>

DirectReturn(p) ==
    /\ pc[p] = "gotface"
    /\ caller[p] = "direct"
    /\ calls' = Append(calls, [size |-> size[p], face |-> face[p], tried |-> tried[p],
                               hit |-> hit[p], cached |-> fontCache[size[p]]])
    /\ pc' = [pc EXCEPT ![p] = "idle"]
    /\ caller' = [caller EXCEPT ![p] = "none"]
    /\ size' = [size EXCEPT ![p] = 0]
    /\ idx' = [idx EXCEPT ![p] = 0]
    /\ tried' = [tried EXCEPT ![p] = << >>]
    /\ hit' = [hit EXCEPT ![p] = FALSE]
    /\ face' = [face EXCEPT ![p] = NoFace]
    /\ UNCHANGED <<fontFiles, fontVars, reqVars, rsVars>>

NextSeq ==
    \/ \E sz \in FontSizes : DirectCall(1, sz)
    \/ LookupEnd(1)
    \/ ScanFonts(1)
    \/ StoreEnd(1)
    \/ DirectReturn(1)

SpecSeq == InitSeq /\ [][NextSeq]_vars

(***************************************************************************)
(* resizeImage applied to one input: a bitmap whose pixels all differ,     *)
(* with bounds that may not start at the origin, and a target size.        *)
(***************************************************************************)
SrcWidths == {1, 2, 30, 112}
SrcHeights == {1, 2, 30}
DstWidths == {1, 2, 22, 160}
DstHeights == {1, 3, 22}
Origins == {<<0, 0>>, <<5, 7>>}

\* pixel (i, j) of the bitmap, counted from its top-left corner
GradientPixel(i, j) == <<257 * i, 257 * j, 4660, 65535>>

Gradient(o, w, h) ==
    [minX |-> o[1], minY |-> o[2], w |-> w, h |-> h,
     pix |-> [p \in (o[1]..(o[1] + w - 1)) \X (o[2]..(o[2] + h - 1)) |->
                 GradientPixel(p[1] - o[1], p[2] - o[2])]]

InitResize ==
    /\ fontFiles = [i \in 1..NumPaths |-> "unreadable"]
    /\ InitCommon
    /\ \E o \in Origins, sw \in SrcWidths, sh \in SrcHeights,
          dw \in DstWidths, dh \in DstHeights :
          rsIn = [src |-> Gradient(o, sw, sh), width |-> dw, height |-> dh]
    /\ rsOut = NoBitmap

Resize ==
    /\ rsOut = NoBitmap
    /\ rsIn.width > 0
    /\ rsOut' = resizeImage(rsIn.src, rsIn.width, rsIn.height)
    /\ UNCHANGED <<fontFiles, fontVars, pc, caller, gffVars, reqVars, calls, rsIn>>

NextResize == Resize

SpecResize == InitResize /\ [][NextResize]_vars

(***************************************************************************)
(* Properties.                                                             *)
(***************************************************************************)
FacesOfSize(sz) == {f \in faces : f.size = sz}

\* C1: for every size at most one face is ever constructed, and all calls
\* that hold a face for that size hold the same instance.
C1_OneFacePerSize ==
    /\ \A sz \in FontSizes : Cardinality(FacesOfSize(sz)) <= 1
    /\ \A p, q \in Procs :
          (face[p] # NoFace /\ face[q] # NoFace /\ face[p].size = face[q].size)
              => face[p] = face[q]

\* C2: no write of fontCache by one call overlaps a read or a write of
\* fontCache by another call.
C2_NoOverlappingMapAccess ==
    \A p, q \in Procs :
        (p # q /\ Writing(p)) => ~(Reading(q) \/ Writing(q))

\* C3 (as stated): of two sequential calls for one size, the second returns
\* what the first returned and reads no candidate file.
C3_SecondCallReadsNothing ==
    \A i, j \in 1..Len(calls) :
        (i < j /\ calls[i].size = calls[j].size)
            => /\ calls[j].face = calls[i].face
               /\ calls[j].tried = << >>

\* C3 (amended): of two sequential calls for one size, if the first returned
\* a face, the second returns that same face and reads no candidate file;
\* if the first returned nil, nothing was cached and the second, with the
\* files unchanged, returns nil again after reading every candidate again.
C3_SecondCallReadsNothingOnceFound ==
    \A i, j \in 1..Len(calls) :
        (i < j /\ calls[i].size = calls[j].size)
            => /\ calls[i].face # NoFace
                    => (calls[j].face = calls[i].face /\ calls[j].tried = << >>)
               /\ calls[i].face = NoFace
                    => (calls[j].face = NoFace /\ Len(calls[j].tried) = NumPaths)

C3_Witness ==
    \E i, j \in 1..Len(calls) :
        /\ i < j
        /\ calls[i].size = calls[j].size
        /\ calls[i].face # NoFace
        /\ calls[i].tried # << >>
        /\ calls[j].hit

UsableCandidates == {c \in 1..NumPaths : fontFiles[c] = "font"}

C5_EntriesNeverReplaced ==
    [][\A sz \in FontSizes :
          fontCache[sz] # NoFace => fontCache'[sz] = fontCache[sz]]_vars

Rendered(p) == pc[p] \in {"respond", "done"} /\ imgBuf[p] # NoBuf

\* C7: two renders of the same StatsData under the same theme return the
\* same bytes.
C7_SameInputSameBytes ==
    \A p, q \in Procs :
        (Rendered(p) /\ Rendered(q) /\ stats[p] = stats[q] /\ theme[p] = theme[q])
            => imgBuf[p] = imgBuf[q]

\* C8: an addLabel call that gets no face leaves the canvas as it is and
\* goes on to the next label or the encoder; createStatsImage fails only if
\* the encoder does, and otherwise returns the 1200x800 canvas with the
\* theme's background and the avatar, whatever fonts were found.
C8_MissingFontDegrades ==
    /\ [](\A p \in Procs :
            pc[p] = "respond" =>
               /\ err[p] => encFailed[p]
               /\ ~err[p] =>
                     /\ imgBuf[p] = PngBytes(img[p])
                     /\ img[p].w = 1200 /\ img[p].h = 800
                     /\ img[p].bg = theme[p].BGColor
                     /\ img[p].avatar = stats[p].Avatar)
    /\ [][\A p \in Procs :
            (pc[p] = "gotface" /\ caller[p] = "addLabel" /\ face[p] = NoFace)
               => /\ img'[p] = img[p]
                  /\ err'[p] = err[p]
                  /\ pc'[p] \in {"label", "encode"}]_vars

C8_Witness ==
    \E p \in Procs :
        /\ pc[p] = "respond"
        /\ ~err[p]
        /\ img[p].labels = << >>
        /\ imgBuf[p] = PngBytes(NewCanvas(stats[p], theme[p]))

\* C9: a theme name that is exactly a key of the table selects that entry,
\* every other name selects the "light" entry, and no name ends the
\* request with an error.
C9_ThemeSelection ==
    \A p \in Procs :
        pc[p] = "fetch" =>
            /\ req[p].theme \in {"light", "dark", "a"} => theme[p] = themes[req[p].theme]
            /\ req[p].theme \notin {"light", "dark", "a"} => theme[p] = themes["light"]
            /\ resp[p] = NoResp

C9_Witness ==
    \E p \in Procs :
        /\ pc[p] = "fetch"
        /\ req[p].theme = "Dark"
        /\ theme[p] = themes["light"]

\* C10: when png.Encode fails, createStatsImage returns the error and no
\* buffer, and the handler answers 500 with neither image bytes nor the
\* image/png content type.
C10_EncodeFailureIsError ==
    \A p \in Procs :
        encFailed[p] =>
            /\ pc[p] \in {"respond", "done"}
            /\ err[p]
            /\ imgBuf[p] = NoBuf
            /\ pc[p] = "respond" => resp[p] = NoResp
            /\ pc[p] = "done" =>
                  /\ resp[p].status = 500
                  /\ resp[p].ctype # "image/png"
                  /\ resp[p].body = <<"error">>

C10_Witness ==
    \E p \in Procs :
        /\ encFailed[p]
        /\ pc[p] = "done"
        /\ resp[p].status = 500

\* C6: the result has exactly the requested size and its pixel (x, y) is
\* the source pixel at (floor(x*srcW/targetW), floor(y*srcH/targetH)), a
\* coordinate inside the source.
C6_ExactFloorSampling ==
    rsOut # NoBitmap =>
        /\ rsOut.w = rsIn.width /\ rsOut.h = rsIn.height
        /\ DOMAIN rsOut.pix = Coords(rsIn.width, rsIn.height)
        /\ \A p \in Coords(rsIn.width, rsIn.height) :
              LET sx == (p[1] * rsIn.src.w) \div rsIn.width
                  sy == (p[2] * rsIn.src.h) \div rsIn.height
              IN /\ sx \in 0..(rsIn.src.w - 1)
                 /\ sy \in 0..(rsIn.src.h - 1)
                 /\ rsOut.pix[p] =
                       ToRGBA8(rsIn.src.pix[<<rsIn.src.minX + sx, rsIn.src.minY + sy>>])

\* the renders that hold face f in an addLabel call, and those of them whose
\* DrawString is writing f's rasterizer and mask buffers
FaceHolders(f) == {p \in Procs : caller[p] = "addLabel" /\ face[p].id = f.id}
FaceWriters(f) == {p \in FaceHolders(f) : Drawing(p)}

\* C11: a canvas changes only in a step of the render that allocated it,
\* and a face that two renders hold is not written by either of them.
C11_OnlyFontCacheShared ==
    /\ [][\A p \in Procs : img'[p] # img[p] => pc'[p] # pc[p]]_vars
    /\ [](\A f \in faces : Cardinality(FaceHolders(f)) > 1 => FaceWriters(f) = {})

\* the canvas coordinates the pixels are compared at: the edges of the
\* canvas, both sides of every edge of the avatar rectangle and of its
\* middle, and a grid of step 4 across and around the rectangle
ProbeXs == {0, 640, 1199} \cup {52, 54, 132, 134, 212, 214}
               \cup {x \in 33..233 : x % 4 = 1}
ProbeYs == {0, 400, 799} \cup {52, 54, 132, 134, 212, 214}
               \cup {y \in 33..233 : y % 4 = 1}

Uncovered(c, x, y) == \A i \in 1..Len(c.labels) : ~LabelCovers(c.labels[i], x, y)

\* C12: once the labels are done the canvas is 1200x800, and of its pixels
\* that no label covers, (x, y) with 53 <= x < 213 and 53 <= y < 213 is
\* pixel (x - 53, y - 53) of resizeImage(avatar, 160, 160) and every other
\* one is the theme's background colour.
C12_CompositeOrder ==
    \A p \in Procs :
        pc[p] = "encode" =>
            LET c == img[p]
                ds == Draws(c)
                resized == resizeImage(stats[p].Avatar, 160, 160)
            IN /\ c.w = 1200 /\ c.h = 800
               /\ \A x \in ProbeXs, y \in ProbeYs :
                     Uncovered(c, x, y) =>
                        PixelAfter(ds, Len(ds), x, y) =
                           IF 53 <= x /\ x < 213 /\ 53 <= y /\ y < 213
                           THEN resized.pix[<<x - 53, y - 53>>]
                           ELSE theme[p].BGColor

C12_Witness ==
    \E p \in Procs :
        /\ pc[p] = "encode"
        /\ Len(img[p].labels) = NumLabels
        /\ stats[p].Avatar = QuadAvatar
        /\ theme[p] = themes["dark"]
        /\ Uncovered(img[p], 212, 212) /\ Uncovered(img[p], 213, 212)
        /\ PixelAfter(Draws(img[p]), 2, 212, 212) = <<255, 255, 18, 255>>
        /\ PixelAfter(Draws(img[p]), 2, 213, 212) = <<30, 30, 30, 255>>

\* where a handler stands between the fetch and the write
InRender(p) ==
    /\ caller[p] # "direct"
    /\ pc[p] \in {"render", "label", "lookup", "scan", "storing", "gotface", "draw",
                  "encode", "respond"}

\* C13: the handler checks the id, fetches, renders and writes, in that
\* order, and returns at the first failure.  It fetches only for a
\* non-empty id and renders only what a fetch returned; it writes once, on
\* returning: 400 straight after the id check of an empty id, 404 from a
\* failed fetch, before any canvas exists, 500 after a failed render, and
\* the PNG with image/png and Cache-Control after a render that succeeded.
C13_HandlerOrder ==
    /\ [](\A p \in Procs :
            /\ pc[p] = "fetch" =>
                  req[p].id # "" /\ stats[p] = NoStats /\ img[p] = NoCanvas /\ resp[p] = NoResp
            /\ InRender(p) =>
                  req[p].id # "" /\ stats[p] # NoStats /\ resp[p] = NoResp
            /\ pc[p] = "done" =>
                  /\ resp[p].status \in {400, 404, 500, 200}
                  /\ resp[p].status = 400 <=> req[p].id = ""
                  /\ resp[p].status \in {400, 404} =>
                        stats[p] = NoStats /\ img[p] = NoCanvas /\ imgBuf[p] = NoBuf
                  /\ resp[p].status = 500 => stats[p] # NoStats /\ err[p]
                  /\ resp[p].status # 200 =>
                        /\ resp[p].ctype # "image/png"
                        /\ resp[p].cache = ""
                        /\ resp[p].body = <<"error">>
                  /\ resp[p].status = 200 =>
                        /\ stats[p] # NoStats /\ ~err[p]
                        /\ resp[p].ctype = "image/png"
                        /\ resp[p].cache = "public, max-age=3600, s-maxage=3600"
                        /\ resp[p].body = imgBuf[p]
                        /\ imgBuf[p] = PngBytes(img[p]))
    /\ [][\A p \in Procs :
            /\ resp[p] # NoResp => resp'[p] \in {resp[p], NoResp}
            /\ (resp[p] = NoResp /\ resp'[p] # NoResp) =>
                  /\ pc'[p] = "done"
                  /\ resp'[p].status = 400 => pc[p] = "idle"
                  /\ resp'[p].status = 404 => pc[p] = "fetch"
                  /\ resp'[p].status \in {500, 200} => pc[p] = "respond"]_vars

C13_Witness ==
    \E p \in Procs :
        /\ pc[p] = "done"
        /\ resp[p].status = 404
        /\ req[p].id = "octocat"
        /\ accepted = 2
        /\ fontCache[StatSize] # NoFace

====
